---------------------------- MODULE Spec2Model ----------------------------
(***************************************************************************)
(* A model of bot.py: the SQLite store (employees, clicks,                 *)
(* withdraw_requests, global_settings), the aiogram conversation state of  *)
(* the withdrawal dialogue, and the handlers that read and write them.     *)
(*                                                                         *)
(* Money is held as the code holds it, in binary floating point (Python    *)
(* float, SQLite REAL: IEEE 754 binary64, round to nearest, ties to even). *)
(* Decimal texts and literals are written in units of 1/100000 USDT (rates *)
(* in cents) and converted by a correctly rounded division.                *)
(*                                                                         *)
(* Every handler runs on one asyncio event loop and issues its SQL         *)
(* statements synchronously, so the statements of one handler between two  *)
(* network awaits are one atomic step.  The network awaits (message.reply, *)
(* bot.send_message) come after the writes of the handler.                 *)
(*                                                                         *)
(* bot.db is a file that outlives the process (sqlite3.connect and CREATE  *)
(* TABLE IF NOT EXISTS, lines 50-176): the initial state is the database   *)
(* the process finds, which is either fresh or one of a few databases      *)
(* left by an earlier deployment (IngestDbs, LedgerDbs).                   *)
(***************************************************************************)
EXTENDS Integers, Sequences, FiniteSets, TLC

VARIABLES
    employees,   \* table employees: username -> row
    clicks,      \* table clicks: the set of its rows, without their id (unique_daily_key is UNIQUE)
    requests,    \* table withdraw_requests: rows in order of their id
    usdt_rate,   \* global_settings['usdt_rate_per_1000_visits'], in cents; NULL when absent
    fsm,         \* aiogram FSM storage: <<chat, person>> -> [state, data]
    today,       \* index of the current calendar day in Days
    last,        \* the last call handled and its outcome (observation only)
    credited,    \* history: visits credited so far, per <<ref, viewer, page, day>>
    tasks        \* conversion handlers in flight: task -> position and the row its SELECT returned

vars == <<employees, clicks, requests, usdt_rate, fsm, today, last, credited, tasks>>

NULL == "NULL"

----------------------------------------------------------------------------
(* Bounds of the model *)

MaxDay == 2          \* calendar days the model runs through
MaxVisits == 1       \* total_visits an administrator's em_visit_add may reach
MaxHalves == 3       \* usdt_balance a conversion may reach, in halves of one USDT
MaxRequests == 2     \* rows of withdraw_requests
MaxHundreds == 2     \* total_visits em_visit_add may reach where conversions are followed, in hundreds
MaxTenths == 3       \* usdt_balance a conversion may start from there, in tenths of one USDT
MaxAdminVisits == 2  \* total_visits em_visit_add may reach where the administrator's commands run alone

(* Program constants *)

QUOTA == 20                 \* total_clicks_today_for_viewer >= 20
MinWithdraw == 100000       \* usdt_balance < 1.00, in units of 1/100000 USDT
MaxCommentLen == 60         \* len(comment) > 60
PerVisits == 1000           \* (total_visits / 1000) * usdt_rate

Cent == 100                  \* a rate text "r" with two decimals is r * Cent cents
Unit == PerVisits * Cent     \* one USDT in units: visits * rate-in-cents / Unit
Half == MinWithdraw \div 2   \* half a USDT
Tenth == MinWithdraw \div 10  \* a tenth of a USDT
SeedRate == 500 * Cent      \* a stored rate of 500.00 USDT per 1000 visits, in cents
NoAmount == 0 - 1           \* the FSM data holds no usdt_amount
NaN == 0 - 2                \* float('nan') of /set_usdt nan: no number of cents
AdminId == "1"              \* ADMIN_CHAT_ID

Days == <<"2026-11-06", "2026-11-07", "2026-11-08", "2026-11-09">>
DateStr(d) == Days[d]

----------------------------------------------------------------------------
(* Binary floating point.  A magnitude is a number with IntLimbs limbs     *)
(* before the binary point and FracLimbs after it, each limb holding Limb  *)
(* binary digits, most significant limb first; a float has at most SigBits *)
(* significant binary digits.  Every float the model meets lies in this    *)
(* window.  Quotients, sums and products are formed exactly, limb by limb, *)
(* and then rounded once, to nearest with ties to even, as IEEE 754        *)
(* prescribes.                                                             *)

SigBits == 53      \* significand of binary64
Limb == 13         \* binary digits per limb
IntLimbs == 1
FracLimbs == 5
Limbs == IntLimbs + FracLimbs
Base == 2^Limb

ZeroLimbs == [i \in 1..Limbs |-> 0]

\* k limbs of r/d (r < d), followed by a sticky limb: 1 iff a remainder is left
RECURSIVE FracDigits(_, _, _)
FracDigits(r, d, k) ==
    IF k = 0 THEN << IF r = 0 THEN 0 ELSE 1 >>
    ELSE << (Base * r) \div d >> \o FracDigits((Base * r) % d, d, k - 1)

\* n / d in the window (n / d < Base), followed by the sticky limb
DivLimbs(n, d) == << n \div d >> \o FracDigits(n % d, d, FracLimbs)

\* carries of the column sums, from the right: element i is the carry into limb i
RECURSIVE Carries(_, _, _)
Carries(cols, i, c0) ==
    IF i = Len(cols) THEN << c0 >>
    ELSE LET rest == Carries(cols, i + 1, c0)
         IN  << (cols[i + 1] + Head(rest)) \div Base >> \o rest

\* the limbs of the number whose columns sum to cols, plus c0
Normalize(cols, c0) ==
    LET c == Carries(cols, 1, c0)
    IN  [i \in 1..Len(cols) |-> (cols[i] + c[i]) % Base]

AddLimbs(x, y) == Normalize([k \in 1..Len(x) |-> x[k] + y[k]], 0)

\* x - y for x >= y: x plus the complement of y plus one
SubLimbs(x, y) == Normalize([k \in 1..Len(x) |-> x[k] + (Base - 1 - y[k])], 1)

RECURSIVE ColumnSum(_, _, _, _)
ColumnSum(x, y, q, k) ==
    IF k > Len(x) THEN 0
    ELSE (IF q - k \in 1..Len(y) THEN x[k] * y[q - k] ELSE 0) + ColumnSum(x, y, q, k + 1)

\* x * y, exact, in twice the limbs: the first 2 * IntLimbs of them stand
\* before the binary point
MulLimbs(x, y) == Normalize([q \in 1..(2 * Len(x)) |-> ColumnSum(x, y, q, 1)], 0)

\* x < y, for numbers of equally many limbs
LessLimbs(x, y) ==
    \E i \in 1..Len(x) :
        x[i] < y[i] /\ \A j \in 1..(i - 1) : x[j] = y[j]

\* the number of binary digits of a limb
BitLen(v) == CHOOSE k \in 0..Limb : v < 2^k /\ (k = 0 \/ v >= 2^(k - 1))

\* the digits dropped when x is cut to SigBits significant digits
Dropped(x) ==
    LET t == CHOOSE i \in 1..Len(x) : x[i] # 0 /\ \A j \in 1..(i - 1) : x[j] = 0
    IN  (Len(x) - t) * Limb + BitLen(x[t]) - SigBits

\* round to nearest, ties to even, keeping SigBits significant digits;
\* x has at least Limbs limbs, the result has Limbs
RoundLimbs(x) ==
    IF \A i \in 1..Len(x) : x[i] = 0 THEN ZeroLimbs
    ELSE IF Dropped(x) <= 0 THEN SubSeq(x, 1, Limbs)
    ELSE LET n == Len(x)
             m == n - Dropped(x) \div Limb     \* the limb of the last digit kept
             r == Dropped(x) % Limb            \* digits of that limb that are dropped
             roundbit == IF r > 0 THEN (x[m] \div 2^(r - 1)) % 2
                         ELSE x[m + 1] \div 2^(Limb - 1)
             sticky == IF r > 0
                       THEN x[m] % 2^(r - 1) # 0 \/ \E i \in (m + 1)..n : x[i] # 0
                       ELSE x[m + 1] % 2^(Limb - 1) # 0 \/ \E i \in (m + 2)..n : x[i] # 0
             lsb == (x[m] \div 2^r) % 2
             up == roundbit = 1 /\ (sticky \/ lsb = 1)
             kept == [i \in 1..n |->
                         IF i < m THEN x[i]
                         ELSE IF i = m THEN x[m] - (x[m] % 2^r) + (IF up THEN 2^r ELSE 0)
                         ELSE 0]
         IN  SubSeq(Normalize(kept, 0), 1, Limbs)

\* a float: sign and magnitude; zero carries no sign
Float(neg, mag) == [neg |-> neg /\ mag # ZeroLimbs, mag |-> mag]

\* n / d for naturals, correctly rounded: int / int, and float("n/d as a decimal text")
FDiv(n, d) == Float(FALSE, RoundLimbs(DivLimbs(n, d)))

FNeg(x) == Float(~x.neg, x.mag)

FMul(x, y) ==
    LET p == MulLimbs(x.mag, y.mag)
    IN  Float(x.neg # y.neg, RoundLimbs(SubSeq(p, IntLimbs + 1, Len(p))))

FAdd(x, y) ==
    IF x.neg = y.neg THEN Float(x.neg, RoundLimbs(AddLimbs(x.mag, y.mag)))
    ELSE IF LessLimbs(x.mag, y.mag)
    THEN Float(y.neg, RoundLimbs(SubLimbs(y.mag, x.mag)))
    ELSE Float(x.neg, RoundLimbs(SubLimbs(x.mag, y.mag)))

FSub(x, y) == FAdd(x, FNeg(y))

FLess(x, y) ==
    IF x.neg # y.neg THEN x.neg
    ELSE IF x.neg THEN LessLimbs(y.mag, x.mag) ELSE LessLimbs(x.mag, y.mag)

FLeq(x, y) == ~FLess(y, x)

FZero == Float(FALSE, ZeroLimbs)

\* the float of a decimal amount given in units of 1/100000 USDT
Dec(units) == FDiv(units, Unit)

\* 1.00, the smallest balance a withdrawal may start from
MinBalance == Dec(MinWithdraw)

----------------------------------------------------------------------------
(* Strings joined with "_" .  A string is modelled by the sequence of its  *)
(* parts between underscores, so that two different lists of fields that   *)
(* format to the same text give the same key.                              *)

Tokens(s) ==
    IF s = "e1_v1" THEN <<"e1", "v1">> ELSE <<s>>

RECURSIVE JoinUnderscore(_)
JoinUnderscore(parts) ==
    IF parts = <<>> THEN <<>>
    ELSE Tokens(Head(parts)) \o JoinUnderscore(Tail(parts))

\* Python's str() of an optional text: None prints as "None"
PyStr(x) == IF x = NULL THEN "None" ELSE x

\* viewer_telegram_id or viewer_username
ViewerIdentity(vid, vname) == IF vid # NULL THEN vid ELSE vname

\* f"{viewer_telegram_id or viewer_username}_{today_date}_{page_url}"
ViewerPageKey(vid, vname, day, page) ==
    JoinUnderscore(<<PyStr(ViewerIdentity(vid, vname)), DateStr(day), page>>)

\* the key with a per-event suffix, which makes every key a new one
EmployeeKeyWithSuffix(ref, vid, vname, day, page) ==
    JoinUnderscore(<<PyStr(ref), PyStr(ViewerIdentity(vid, vname)), DateStr(day), page>>)
        \o <<ToString(Cardinality(clicks))>>

\* f"{ref_by_employee}_{viewer_telegram_id or viewer_username}_{today_date}_{page_url}"
EmployeePageVisitKey(ref, vid, vname, day, page) ==
    JoinUnderscore(<<PyStr(ref), PyStr(ViewerIdentity(vid, vname)), DateStr(day), page>>)


----------------------------------------------------------------------------
(* Inputs the environment may send *)

Usernames == {"e1", "e2"}                 \* handles an employee row may carry
Refs      == {"e1", "e2", NULL}           \* data.get('ref'); NULL when the field is missing
Pages     == {"p1", "p0"}                 \* data.get('page_url')

\* (viewer_telegram_id, viewer_username) pairs of the payload
KnownViewer  == [vid |-> "7",  vname |-> "v1"]
NamedViewer  == [vid |-> NULL, vname |-> "v1"]
JoinedViewer == [vid |-> NULL, vname |-> "e1_v1"]
AnonViewer   == [vid |-> NULL, vname |-> NULL]
Viewers      == {KnownViewer, NamedViewer, JoinedViewer, AnonViewer}

\* message.from_user of the people who write to the bot
Admin   == [id |-> AdminId, username |-> "adm"]
P1      == [id |-> "2", username |-> "e1"]
P2      == [id |-> "3", username |-> "e2"]
People  == {Admin, P1, P2}
Talkers == {P1, P2}            \* people who use the employee commands
Tasks   == {"t1", "t2"}        \* conversion commands the dispatcher may have in flight at once
Chats   == {"c1", "c2"}        \* chats a person may write from; the FSM key is (chat, user)
Targets == {"e1", "e3"}        \* @username arguments of the administrator's commands

----------------------------------------------------------------------------
(* The database the process finds at start *)

\* employees row as INSERT INTO employees (username, telegram_id, ...) leaves it
NewEmployee(tid) ==
    [telegram_id |-> tid, is_editor |-> FALSE, profile_set |-> FALSE, banned |-> FALSE,
     bkash_number |-> NULL, binance_id |-> NULL,
     total_visits |-> 0, total_clicks |-> 0, usdt_balance |-> FZero]

SeedPages == <<"p1", "p2", "p3", "p4", "p5", "p6", "p7", "p8", "p9", "p10",
               "p11", "p12", "p13", "p14", "p15", "p16", "p17", "p18", "p19">>

\* n rows of one viewer, dated day 1, one per page, each a qualifying visit
\* stored under the viewer/date/page key that line 1110 looks up
SeedClicks(n, v) ==
    { [ref_by_employee |-> "e1",
       viewer_telegram_id |-> v.vid, viewer_username |-> v.vname,
       page_url |-> SeedPages[i], date |-> 1, is_visit |-> TRUE,
       unique_daily_key |-> ViewerPageKey(v.vid, v.vname, 1, SeedPages[i])] : i \in 1..n }

\* The payout profile an earlier deployment stored for e1
Established(row) ==
    [row EXCEPT !.profile_set = TRUE, !.bkash_number = "017", !.usdt_balance = MinBalance]

\* e1 is an active employee with a complete profile and 1.00 USDT;
\* e2 is banned and has no profile, or was never registered
SeedEmployees(withE2) ==
    [u \in (IF withE2 THEN {"e1", "e2"} ELSE {"e1"}) |->
        IF u = "e1" THEN Established(NewEmployee("2"))
        ELSE [NewEmployee("3") EXCEPT !.banned = TRUE]]

\* a database no deployment has written to
FreshDb == [employees |-> <<>>, clicks |-> {}, usdt_rate |-> 100]

\* databases whose click log an earlier deployment filled
SeedLogs ==
    { <<0, KnownViewer>>, <<1, KnownViewer>>, <<QUOTA - 1, KnownViewer>>,
      <<QUOTA - 1, NamedViewer>>, <<QUOTA - 1, AnonViewer>> }

\* e2 is a banned employee in all of them but one, where e2 was never registered
IngestDbs ==
    { [employees |-> SeedEmployees(TRUE), clicks |-> SeedClicks(l[1], l[2]),
       usdt_rate |-> SeedRate] : l \in SeedLogs }
    \cup { [employees |-> SeedEmployees(FALSE), clicks |-> SeedClicks(1, KnownViewer),
             usdt_rate |-> SeedRate] }

LedgerDbs ==
    { [employees |-> SeedEmployees(TRUE), clicks |-> SeedClicks(1, KnownViewer),
       usdt_rate |-> SeedRate] }

NoData == [usdt_amount |-> NoAmount, payment_method |-> NULL]
Idle   == [state |-> "none", data |-> NoData]

\* a conversion handler that is not running
NoRow   == [found |-> FALSE, total_visits |-> 0, usdt_balance |-> FZero]
Resting == [pc |-> "idle", op |-> NULL, who |-> NULL, data |-> NoRow]

InitDb(dbs) ==
    /\ \E db \in dbs :
          /\ employees = db.employees
          /\ clicks = db.clicks
          /\ usdt_rate = db.usdt_rate   \* INSERT OR IGNORE keeps a stored rate
    /\ requests = <<>>
    /\ fsm = [k \in Chats \X Talkers |-> Idle]
    /\ today = 1
    /\ last = [op |-> "init"]
    /\ credited = <<>>
    /\ tasks = [t \in Tasks |-> Resting]

Init == InitDb({FreshDb} \cup LedgerDbs)

InitIngest == InitDb({FreshDb} \cup IngestDbs)

----------------------------------------------------------------------------
(* SQL helpers *)

Exists(u) == u \in DOMAIN employees

\* an upsert in place of the UPDATE: a missing row is created
AddToOrInsert(emps, u, field, n) ==
    [x \in DOMAIN emps \cup {u} |->
        IF x = u
        THEN [(IF x \in DOMAIN emps THEN emps[x] ELSE NewEmployee(NULL))
                 EXCEPT ![field] = @ + n]
        ELSE emps[x]]

\* UPDATE employees SET <field> = <field> + n WHERE username = u,
\* applied to the table emps: no row matches an unknown (or NULL) username
AddTo(emps, u, field, n) ==
    [x \in DOMAIN emps |->
        IF x = u THEN [emps[x] EXCEPT ![field] = @ + n] ELSE emps[x]]

\* a lookup that finds a qualifying visit whatever the table holds
VisitRowAssumed(key) == TRUE

\* SELECT id FROM clicks WHERE unique_daily_key = ? AND is_visit = 1
VisitRowWithKey(key) ==
    \E r \in clicks : r.unique_daily_key = key /\ r.is_visit

\* SELECT COUNT(*) FROM clicks WHERE (viewer_telegram_id = ? OR viewer_username = ?)
\*   AND STRFTIME('%Y-%m-%d', timestamp) = ?       (a comparison with NULL is not true)
ClicksTodayForViewer(vid, vname) ==
    Cardinality({ r \in clicks :
        /\ \/ (vid # NULL /\ r.viewer_telegram_id = vid)
           \/ (vname # NULL /\ r.viewer_username = vname)
        /\ r.date = today })

\* if total_clicks_today_for_viewer >= 20
LimitReached(count) == count >= QUOTA

\* a clicks table without UNIQUE on unique_daily_key
KeyNeverStored(key) == FALSE

\* unique_daily_key TEXT UNIQUE: an INSERT of a stored key fails
KeyStored(key) == \E r \in clicks : r.unique_daily_key = key

----------------------------------------------------------------------------
(* POST /track-click *)

TrackClickResult(ref, vid, vname, page, is_visit) ==
    LET viewerPageKey == ViewerPageKey(vid, vname, today, page)
        employeeKey   == EmployeePageVisitKey(ref, vid, vname, today, page)
        duplicate     == VisitRowWithKey(employeeKey)
        row == [ref_by_employee |-> ref,
                viewer_telegram_id |-> vid, viewer_username |-> vname,
                page_url |-> page, date |-> today, is_visit |-> is_visit,
                unique_daily_key |-> employeeKey]
        same == [employees |-> employees, clicks |-> clicks]
    IN  IF ~VisitRowWithKey(viewerPageKey)
        THEN \* the handler falls off its end: no response object is returned
             [status |-> "no_response", db |-> same]
        ELSE IF LimitReached(ClicksTodayForViewer(vid, vname))
        THEN [status |-> "limit_reached", db |-> same]
        ELSE IF KeyStored(employeeKey)
        THEN \* INSERT violates UNIQUE: sqlite3.IntegrityError, caught at line 1192
             [status |-> "error", db |-> same]
        ELSE [status |-> "success",
              db |-> [clicks |-> clicks \cup {row},
                      employees |->
                          AddTo(IF is_visit /\ ~duplicate
                                THEN AddTo(employees, ref, "total_visits", 1)
                                ELSE employees,
                                ref, "total_clicks", 1)]]

\* history of the visit credits: what the call added to its referrer's total_visits
Credit(fp, gained) ==
    IF gained = 0 THEN credited
    ELSE [k \in DOMAIN credited \cup {fp} |->
             (IF k \in DOMAIN credited THEN credited[k] ELSE 0)
             + (IF k = fp THEN gained ELSE 0)]

\* HTTP status of the answer: web.json_response(...) is 200, line 1194 passes
\* status=500, and aiohttp answers a handler that returned None with 500
HttpStatus(status) ==
    CASE status \in {"success", "limit_reached"} -> 200
      [] status = "error"                          -> 500
      [] status = "no_response"                    -> 500

\* a notification whose failure reaches the outer except of line 1192
NotifyAdminOrFail(res, sent) ==
    IF sent THEN res ELSE [status |-> "error", db |-> res.db]

\* lines 1168-1188: after the commits the administrator is notified inside
\* try/except Exception; a failure of bot.send_message is logged and the
\* result of the call stays as it was
NotifyAdmin(res, sent) == res

\* the outcomes of bot.send_message the call can meet: it is only attempted
\* once the click is recorded
SendOutcomes(recorded) ==
    IF recorded.status = "success" THEN {"sent", "failed"} ELSE {"none"}

TrackClick(ref, v, page, is_visit) ==
    LET recorded == TrackClickResult(ref, v.vid, v.vname, page, is_visit)
    IN  \E notify \in SendOutcomes(recorded) :
          LET res == IF notify = "none" THEN recorded
                     ELSE NotifyAdmin(recorded, notify = "sent")
              gained == IF Exists(ref)
                        THEN res.db.employees[ref].total_visits - employees[ref].total_visits
                        ELSE 0
          IN  /\ employees' = res.db.employees
              /\ clicks' = res.db.clicks
              /\ last' = [op |-> "track_click", status |-> res.status,
                          ref |-> ref, vid |-> v.vid, vname |-> v.vname,
                          page |-> page, is_visit |-> is_visit, day |-> today,
                          notify |-> notify]
              /\ credited' = Credit(<<ref, ViewerIdentity(v.vid, v.vname), page, today>>, gained)
              /\ UNCHANGED <<requests, usdt_rate, fsm, today, tasks>>

Ingest ==
    \E ref \in Refs, v \in Viewers, page \in Pages, is_visit \in BOOLEAN :
        TrackClick(ref, v, page, is_visit)

\* midnight: datetime.date.today() moves on
NextDay ==
    /\ today < MaxDay
    /\ today' = today + 1
    /\ last' = [op |-> "next_day"]
    /\ UNCHANGED <<employees, clicks, requests, usdt_rate, fsm, credited, tasks>>

\* one tracked page of one viewer, as the ledger sees it
IngestKnown ==
    \E is_visit \in BOOLEAN : TrackClick("e1", KnownViewer, "p1", is_visit)

----------------------------------------------------------------------------
(* Authorization *)

\* a check that lets everybody through
is_admin_anyone(user_id) == TRUE

\* str(user_id) == ADMIN_CHAT_ID
is_admin(user_id) == user_id = AdminId

\* SELECT is_editor FROM employees WHERE telegram_id = ?: result and result[0] == 1
is_editor(user_id) ==
    \E u \in DOMAIN employees :
        employees[u].telegram_id = user_id /\ employees[u].is_editor

EDITOR_ALLOWED_ADMIN_COMMANDS ==
    {"list_employees", "click_user_list", "report", "list_domains",
     "channel_list", "earning_bot_list", "site_list"}

has_editor_permission(user_id, command_name) ==
    IF ~is_editor(user_id) THEN FALSE
    ELSE command_name \in EDITOR_ALLOWED_ADMIN_COMMANDS

----------------------------------------------------------------------------
(* Rate and visit adjustments (administrator) *)

RateInputs  == {0, SeedRate}                 \* /set_usdt <amount>, in cents
VisitInputs == {0, 1, 2}                     \* /em_visit_add @u <visits>
ConvertRates == {0, 100, 300}                \* /set_usdt 0, 1.00, 3.00

\* float(text) of the rate texts the model stores, by their cents
RateFloat == [cents \in RateInputs \cup ConvertRates \cup {100} |-> FDiv(cents, Cent)]

\* float(usdt_rate_str[0]) if usdt_rate_str else 0.0
CurrentRate == IF usdt_rate = NoAmount THEN FZero ELSE RateFloat[usdt_rate]

Reply(op, who, status) == [op |-> op, who |-> who, status |-> status]

\* set_usdt without its usdt_amount <= 0 return
set_usdt_any_value(actor, value) ==
    /\ IF ~is_admin(actor.id)
       THEN /\ last' = Reply("set_usdt", actor.username, "not_admin")
            /\ UNCHANGED usdt_rate
       ELSE /\ usdt_rate' = value
            /\ last' = Reply("set_usdt", actor.username, "ok")
    /\ UNCHANGED <<employees, clicks, requests, fsm, today, credited, tasks>>

set_usdt_rate_handler(actor, value) ==
    /\ IF ~is_admin(actor.id)
       THEN /\ last' = Reply("set_usdt", actor.username, "not_admin")
            /\ UNCHANGED usdt_rate
       ELSE IF value # NaN /\ value <= 0      \* nan <= 0 is False
       THEN /\ last' = Reply("set_usdt", actor.username, "not_positive")
            /\ UNCHANGED usdt_rate
       ELSE /\ usdt_rate' = value
            /\ last' = Reply("set_usdt", actor.username, "ok")
    /\ UNCHANGED <<employees, clicks, requests, fsm, today, credited, tasks>>

\* the model follows total_visits up to a bound
VisitsWithin(target, n, bound) ==
    Exists(target) => employees[target].total_visits + n <= bound

employee_visit_add_handler(actor, target, n) ==
    /\ IF ~is_admin(actor.id)
       THEN /\ last' = Reply("em_visit_add", target, "not_admin")
            /\ UNCHANGED employees
       ELSE IF n <= 0
       THEN /\ last' = Reply("em_visit_add", target, "not_positive")
            /\ UNCHANGED employees
       ELSE /\ employees' = AddTo(employees, target, "total_visits", n)
            /\ last' = Reply("em_visit_add", target,
                             IF Exists(target) THEN "ok" ELSE "not_found")
    /\ UNCHANGED <<clicks, requests, usdt_rate, fsm, today, credited, tasks>>

\* the subtraction without MAX(0, ...)
SubtractVisitsBelowZero(emps, u, n) ==
    [x \in DOMAIN emps |->
        IF x = u THEN [emps[x] EXCEPT !.total_visits = @ - n] ELSE emps[x]]

\* UPDATE employees SET total_visits = MAX(0, total_visits - n) WHERE username = u
SubtractVisits(emps, u, n) ==
    [x \in DOMAIN emps |->
        IF x = u
        THEN [emps[x] EXCEPT !.total_visits = IF @ - n > 0 THEN @ - n ELSE 0]
        ELSE emps[x]]

employee_visit_minus_handler(actor, target, n) ==
    /\ IF ~is_admin(actor.id)
       THEN /\ last' = Reply("em_visit_minus", target, "not_admin")
            /\ UNCHANGED employees
       ELSE IF n <= 0
       THEN /\ last' = Reply("em_visit_minus", target, "not_positive")
            /\ UNCHANGED employees
       ELSE /\ employees' = SubtractVisits(employees, target, n)
            /\ last' = Reply("em_visit_minus", target,
                             IF Exists(target) THEN "ok" ELSE "not_found")
    /\ UNCHANGED <<clicks, requests, usdt_rate, fsm, today, credited, tasks>>

----------------------------------------------------------------------------
(* Employee administration (administrator) *)

TelegramIds == {NULL, "2", "3"}              \* /add_employee @u [Telegram_ID]

\* telegram_id INTEGER UNIQUE: another row already holds this id
\* (any number of rows may hold NULL)
TelegramIdTaken(emps, u, tid) ==
    tid # NULL /\ \E x \in DOMAIN emps \ {u} : emps[x].telegram_id = tid

\* UPDATE employees SET <field> = value WHERE username = u
SetField(emps, u, field, value) ==
    [x \in DOMAIN emps |->
        IF x = u THEN [emps[x] EXCEPT ![field] = value] ELSE emps[x]]

\* INSERT INTO employees (username, telegram_id, ...): the other columns
\* take their defaults
InsertEmployee(emps, u, tid) ==
    [x \in DOMAIN emps \cup {u} |-> IF x = u THEN NewEmployee(tid) ELSE emps[x]]

\* DELETE FROM employees WHERE username = u
DeleteEmployee(emps, u) == [x \in DOMAIN emps \ {u} |-> emps[x]]

admin_add_employee_handler(actor, target, tid) ==
    /\ IF ~is_admin(actor.id)
       THEN /\ last' = Reply("add_employee", target, "not_admin")
            /\ UNCHANGED employees
       ELSE IF Exists(target) /\ ~employees[target].banned
       THEN /\ last' = Reply("add_employee", target, "already")
            /\ UNCHANGED employees
       ELSE IF TelegramIdTaken(employees, target, tid)
       THEN \* sqlite3.IntegrityError, caught by except Exception
            /\ last' = Reply("add_employee", target, "error")
            /\ UNCHANGED employees
       ELSE IF Exists(target)
       THEN /\ employees' = SetField(SetField(employees, target, "banned", FALSE),
                                     target, "telegram_id", tid)
            /\ last' = Reply("add_employee", target, "unbanned")
       ELSE /\ employees' = InsertEmployee(employees, target, tid)
            /\ last' = Reply("add_employee", target, "ok")
    /\ UNCHANGED <<clicks, requests, usdt_rate, fsm, today, credited, tasks>>

\* a delete_employee that takes the withdrawal requests of the employee along,
\* as it takes the individual tasks
delete_employee_and_requests(actor, target) ==
    /\ IF ~is_admin(actor.id)
       THEN /\ last' = Reply("delete_employee", target, "not_admin")
            /\ UNCHANGED <<employees, requests>>
       ELSE /\ employees' = DeleteEmployee(employees, target)
            /\ requests' = SelectSeq(requests, LAMBDA r : r.employee_username # target)
            /\ last' = Reply("delete_employee", target, "done")
    /\ UNCHANGED <<clicks, usdt_rate, fsm, today, credited, tasks>>

delete_employee(actor, target) ==
    /\ IF ~is_admin(actor.id)
       THEN /\ last' = Reply("delete_employee", target, "not_admin")
            /\ UNCHANGED employees
       ELSE /\ employees' = DeleteEmployee(employees, target)
            /\ last' = Reply("delete_employee", target, "done")
    /\ UNCHANGED <<clicks, requests, usdt_rate, fsm, today, credited, tasks>>

\* the three handlers that set one flag of one row
SetFlag(op, actor, target, field, value) ==
    /\ IF ~is_admin(actor.id)
       THEN /\ last' = Reply(op, target, "not_admin")
            /\ UNCHANGED employees
       ELSE /\ employees' = SetField(employees, target, field, value)
            /\ last' = Reply(op, target, IF Exists(target) THEN "ok" ELSE "not_found")
    /\ UNCHANGED <<clicks, requests, usdt_rate, fsm, today, credited, tasks>>

band_employee_handler(actor, target) ==
    SetFlag("band_employee", actor, target, "banned", TRUE)

add_editor_handler(actor, target) ==
    SetFlag("add_editor", actor, target, "is_editor", TRUE)

remove_editor_handler(actor, target) ==
    SetFlag("remove_editor", actor, target, "is_editor", FALSE)

----------------------------------------------------------------------------
(* Reports (administrator or editor).  They read the store and reply.      *)

Report(op, actor) ==
    /\ last' = Reply(op, actor.username,
                     IF ~(is_admin(actor.id) \/ has_editor_permission(actor.id, op))
                     THEN "denied" ELSE "shown")
    /\ UNCHANGED <<employees, clicks, requests, usdt_rate, fsm, today, credited, tasks>>

list_employees(actor) == Report("list_employees", actor)

click_user_list_handler(actor) == Report("click_user_list", actor)

get_report(actor) == Report("report", actor)

----------------------------------------------------------------------------
(* Conversion of visits into balance *)

\* the balance up to which the model follows conversions
MaxBalance == Dec(MaxHalves * Half)

\* cur.execute("SELECT total_visits, usdt_balance FROM employees WHERE username = ?")
\* and cur.fetchone()
SelectVisitsAndBalance(emps, u) ==
    IF u \in DOMAIN emps
    THEN [found |-> TRUE, total_visits |-> emps[u].total_visits,
          usdt_balance |-> emps[u].usdt_balance]
    ELSE NoRow

\* usdt_to_add = (total_visits / 1000) * usdt_rate
UsdtToAdd(total_visits, rate) == FMul(FDiv(total_visits, PerVisits), rate)

\* UPDATE employees SET usdt_balance = ?, total_visits = 0 WHERE username = ?
Converted(emps, u, balance) ==
    [x \in DOMAIN emps |->
        IF x = u
        THEN [emps[x] EXCEPT !.usdt_balance = balance, !.total_visits = 0]
        ELSE emps[x]]

Unconverted(emps, status) ==
    [status |-> status, employees |-> emps, visits |-> 0, added |-> FZero]

\* claim_usdt without its total_visits == 0 return
claim_usdt_any_visits(employee_data, emps, rate, username) ==
    IF ~employee_data.found THEN Unconverted(emps, "not_found")
    ELSE IF rate = FZero THEN Unconverted(emps, "rate_not_set")
    ELSE [status |-> "ok",
          employees |-> Converted(emps, username,
                           FAdd(employee_data.usdt_balance,
                                UsdtToAdd(employee_data.total_visits, rate))),
          visits |-> employee_data.total_visits,
          added |-> UsdtToAdd(employee_data.total_visits, rate)]

\* claim_usdt without its usdt_rate == 0.0 return
claim_usdt_any_rate(employee_data, emps, rate, username) ==
    IF ~employee_data.found THEN Unconverted(emps, "not_found")
    ELSE IF employee_data.total_visits = 0 THEN Unconverted(emps, "no_visits")
    ELSE [status |-> "ok",
          employees |-> Converted(emps, username,
                           FAdd(employee_data.usdt_balance,
                                UsdtToAdd(employee_data.total_visits, rate))),
          visits |-> employee_data.total_visits,
          added |-> UsdtToAdd(employee_data.total_visits, rate)]

\* claim_usdt, from the row its SELECT returned on: the reply and the table it leaves
claim_usdt(employee_data, emps, rate, username) ==
    IF ~employee_data.found THEN Unconverted(emps, "not_found")
    ELSE LET total_visits == employee_data.total_visits
             current_usdt_balance == employee_data.usdt_balance
         IN  IF total_visits = 0 THEN Unconverted(emps, "no_visits")
             ELSE IF rate = FZero THEN Unconverted(emps, "rate_not_set")
             ELSE LET usdt_to_add == UsdtToAdd(total_visits, rate)
                  IN  [status |-> "ok",
                       employees |-> Converted(emps, username,
                                        FAdd(current_usdt_balance, usdt_to_add)),
                       visits |-> total_visits, added |-> usdt_to_add]

\* a conversion that credits the balance and keeps the visits
convert_visits_kept(employee_data, emps, rate, target_username) ==
    LET res == claim_usdt(employee_data, emps, rate, target_username)
    IN  IF res.status # "ok" THEN res
        ELSE [res EXCEPT !.employees =
                  [emps EXCEPT ![target_username].usdt_balance =
                      res.employees[target_username].usdt_balance]]

\* convert_visits_to_usdt, from the row its SELECT returned on
convert_visits_to_usdt(employee_data, emps, rate, target_username) ==
    IF ~employee_data.found THEN Unconverted(emps, "not_found")
    ELSE LET total_visits == employee_data.total_visits
             current_usdt_balance == employee_data.usdt_balance
         IN  IF total_visits = 0 THEN Unconverted(emps, "no_visits")
             ELSE IF rate = FZero THEN Unconverted(emps, "rate_not_set")
             ELSE LET usdt_to_add == UsdtToAdd(total_visits, rate)
                  IN  [status |-> "ok",
                       employees |-> Converted(emps, target_username,
                                        FAdd(current_usdt_balance, usdt_to_add)),
                       visits |-> total_visits, added |-> usdt_to_add]

\* what `last` keeps of a conversion
Outcome(op, u, res) ==
    IF res.status = "ok"
    THEN [op |-> op, who |-> u, status |-> "ok", visits |-> res.visits, added |-> res.added]
    ELSE Reply(op, u, res.status)

\* the model follows a balance up to a bound
BalanceWithin(res, u, bound) ==
    res.status = "ok" => FLeq(res.employees[u].usdt_balance, bound)

\* the model follows conversions that start from a balance up to a bound
StartsWithin(emps, u, bound) ==
    u \in DOMAIN emps => FLeq(emps[u].usdt_balance, bound)

\* The handlers as single steps: no await stands between the SELECT and the
\* commit, so nothing else runs between them.
convert_visits_to_usdt_handler(actor, target) ==
    /\ IF ~is_admin(actor.id)
       THEN /\ last' = Reply("convert_visits_to_usdt", target, "not_admin")
            /\ UNCHANGED employees
       ELSE LET res == convert_visits_to_usdt(SelectVisitsAndBalance(employees, target),
                                              employees, CurrentRate, target)
            IN  /\ BalanceWithin(res, target, MaxBalance)
                /\ employees' = res.employees
                /\ last' = Outcome("convert_visits_to_usdt", target, res)
    /\ UNCHANGED <<clicks, requests, usdt_rate, fsm, today, credited, tasks>>

claim_usdt_handler(person) ==
    LET username == person.username
        res == claim_usdt(SelectVisitsAndBalance(employees, username),
                          employees, CurrentRate, username)
    IN  /\ BalanceWithin(res, username, MaxBalance)
        /\ employees' = res.employees
        /\ last' = Outcome("claim_usdt", username, res)
        /\ UNCHANGED <<clicks, requests, usdt_rate, fsm, today, credited, tasks>>

----------------------------------------------------------------------------
(* The conversion handlers as coroutines.  The event loop runs a coroutine *)
(* until its next await; the only await of both handlers is the reply at   *)
(* their end.  Each handler is cut here at its SELECT, so that the rule of *)
(* the event loop, and not the cut, is what keeps other work out.          *)

\* an event loop that switches between coroutines at any statement
YieldsAnywhere(pc) == TRUE

\* a coroutine at pc has reached an await (or has not started)
Yields(pc) == pc # "selected"

\* the event loop may run a step of task t, or a handler outside the tasks (t = NULL)
LoopFree(t) == \A d \in Tasks \ {t} : Yields(tasks[d].pc)

MaxConvertBalance == Dec(MaxTenths * Tenth)

\* /claim_usdt reaches its handler, which runs to the end of its first SELECT
claim_usdt_select(t, person) ==
    /\ tasks[t].pc = "idle"
    /\ LoopFree(t)
    /\ tasks' = [tasks EXCEPT ![t] =
          [pc |-> "selected", op |-> "claim_usdt", who |-> person.username,
           data |-> SelectVisitsAndBalance(employees, person.username)]]
    /\ UNCHANGED <<employees, clicks, requests, usdt_rate, fsm, today, last, credited>>

\* /convert_visits_to_usdt @target: the admin check, then the first SELECT
convert_visits_to_usdt_select(t, actor, target) ==
    /\ tasks[t].pc = "idle"
    /\ LoopFree(t)
    /\ IF ~is_admin(actor.id)
       THEN /\ tasks' = [tasks EXCEPT ![t] =
                  [pc |-> "replying", op |-> "convert_visits_to_usdt", who |-> target,
                   data |-> NoRow]]
            /\ last' = Reply("convert_visits_to_usdt", target, "not_admin")
       ELSE /\ tasks' = [tasks EXCEPT ![t] =
                  [pc |-> "selected", op |-> "convert_visits_to_usdt", who |-> target,
                   data |-> SelectVisitsAndBalance(employees, target)]]
            /\ UNCHANGED last
    /\ UNCHANGED <<employees, clicks, requests, usdt_rate, fsm, today, credited>>

\* the rest of the handler up to its reply: the checks, the rate, the UPDATE, the commit
conversion_update(t) ==
    LET task == tasks[t]
        res == IF task.op = "claim_usdt"
               THEN claim_usdt(task.data, employees, CurrentRate, task.who)
               ELSE convert_visits_to_usdt(task.data, employees, CurrentRate, task.who)
    IN  /\ task.pc = "selected"
        /\ LoopFree(t)
        /\ StartsWithin(employees, task.who, MaxConvertBalance)
        /\ employees' = res.employees
        /\ last' = Outcome(task.op, task.who, res)
        /\ tasks' = [tasks EXCEPT ![t].pc = "replying"]
        /\ UNCHANGED <<clicks, requests, usdt_rate, fsm, today, credited>>

\* await message.reply(...) returns and the handler ends
conversion_replied(t) ==
    /\ tasks[t].pc = "replying"
    /\ LoopFree(t)
    /\ tasks' = [tasks EXCEPT ![t] = Resting]
    /\ UNCHANGED <<employees, clicks, requests, usdt_rate, fsm, today, last, credited>>

----------------------------------------------------------------------------
(* Withdrawal dialogue.  The dispatcher tries the handlers in the order of *)
(* their registration: every command handler is registered before the     *)
(* Withdrawal.* state handlers and so takes a command in any state; a text *)
(* that is no command reaches the handler of the dialogue's state.         *)

AmountTexts  == {"abc", "0", "Withdraw $1.00", "Withdraw $5.00"}
TypedAmounts == {"0.5", "1.1", "6"}          \* amounts typed instead of a button
MethodTexts  == {"Bkash", "Binance", "Cash"}
CommentTexts == {"na", "long61"}             \* "na" stands for the placeholder word

\* float(message.text.replace("Withdraw $", "")) of each text
AmountOfText ==
    [text \in AmountTexts \cup TypedAmounts |->
        CASE text = "0"              -> [ok |-> TRUE, value |-> Dec(0)]
          [] text = "0.5"            -> [ok |-> TRUE, value |-> Dec(Half)]
          [] text = "1.1"            -> [ok |-> TRUE, value |-> Dec(11 * Tenth)]
          [] text = "6"              -> [ok |-> TRUE, value |-> Dec(6 * MinWithdraw)]
          [] text = "Withdraw $1.00" -> [ok |-> TRUE, value |-> Dec(MinWithdraw)]
          [] text = "Withdraw $5.00" -> [ok |-> TRUE, value |-> Dec(5 * MinWithdraw)]
          [] OTHER                   -> [ok |-> FALSE, value |-> FZero]]  \* ValueError

ParseAmount(text) == AmountOfText[text]

\* len(message.text.strip()); "len60" and "long61" stand for texts of 60 and
\* of 61 characters
CommentLen(text) ==
    CASE text = "" -> 0 [] text = "na" -> 2 [] text = "thanks" -> 6
      [] text = "len60" -> MaxCommentLen [] OTHER -> MaxCommentLen + 1

\* a dialogue that takes a comment of any length
CommentNeverRefused(text) == FALSE

\* comment.lower() is not the placeholder word and len(comment) > 60
CommentRefused(text) == text # "na" /\ CommentLen(text) > MaxCommentLen

Dialogue(chat, person) == fsm[<<chat, person>>]

SetDialogue(chat, person, state, data) ==
    [fsm EXCEPT ![<<chat, person>>] = [state |-> state, data |-> data]]

start_withdraw(chat, person) ==
    LET u == person.username
    IN  /\ IF ~Exists(u)
           THEN /\ last' = Reply("withdraw_usdt", u, "not_employee")
                /\ UNCHANGED fsm
           ELSE IF ~employees[u].profile_set
           THEN /\ last' = Reply("withdraw_usdt", u, "profile_incomplete")
                /\ UNCHANGED fsm
           ELSE IF FLess(employees[u].usdt_balance, MinBalance)
           THEN /\ last' = Reply("withdraw_usdt", u, "below_minimum")
                /\ UNCHANGED fsm
           ELSE \* state.set_state(Withdrawal.amount); the data is left as it is
                /\ fsm' = SetDialogue(chat, person, "amount", Dialogue(chat, person).data)
                /\ last' = Reply("withdraw_usdt", u, "ask_amount")
        /\ UNCHANGED <<employees, clicks, requests, usdt_rate, today, credited, tasks>>

process_withdraw_amount(chat, person, text) ==
    LET u == person.username
        amount == ParseAmount(text)
        d == Dialogue(chat, person)
    IN  /\ d.state = "amount"
        /\ IF ~amount.ok
           THEN /\ last' = Reply("withdraw_amount", u, "not_a_number")
                /\ UNCHANGED fsm
           ELSE IF ~Exists(u)
           THEN \* cur.fetchone()[0] raises TypeError: state.clear()
                /\ last' = Reply("withdraw_amount", u, "error")
                /\ fsm' = [fsm EXCEPT ![<<chat, person>>] = Idle]
           ELSE IF FLeq(amount.value, FZero)
           THEN /\ last' = Reply("withdraw_amount", u, "not_positive")
                /\ UNCHANGED fsm
           ELSE IF FLess(employees[u].usdt_balance, amount.value)
           THEN /\ last' = Reply("withdraw_amount", u, "insufficient_balance")
                /\ UNCHANGED fsm
           ELSE /\ fsm' = SetDialogue(chat, person, "payment_method",
                                      [d.data EXCEPT !.usdt_amount = amount.value])
                /\ last' = Reply("withdraw_amount", u, "ask_method")
        /\ UNCHANGED <<employees, clicks, requests, usdt_rate, today, credited, tasks>>

process_withdraw_payment_method(chat, person, text) ==
    LET u == person.username
        d == Dialogue(chat, person)
    IN  /\ d.state = "payment_method"
        /\ IF text \notin {"Bkash", "Binance"}
           THEN /\ last' = Reply("withdraw_method", u, "invalid_method")
                /\ UNCHANGED fsm
           ELSE IF ~Exists(u)
           THEN \* profile_data[0] raises TypeError, which nothing catches
                /\ last' = Reply("withdraw_method", u, "error")
                /\ UNCHANGED fsm
           ELSE IF text = "Bkash" /\ employees[u].bkash_number = NULL
           THEN /\ last' = Reply("withdraw_method", u, "missing_detail")
                /\ UNCHANGED fsm
           ELSE IF text = "Binance" /\ employees[u].binance_id = NULL
           THEN /\ last' = Reply("withdraw_method", u, "missing_detail")
                /\ UNCHANGED fsm
           ELSE /\ fsm' = SetDialogue(chat, person, "comment",
                                      [d.data EXCEPT !.payment_method = text])
                /\ last' = Reply("withdraw_method", u, "ask_comment")
        /\ UNCHANGED <<employees, clicks, requests, usdt_rate, today, credited, tasks>>

\* a request stored as already approved
NewRequestApproved(u, amount, method, detail, comment) ==
    [employee_username |-> u, usdt_amount |-> amount, payment_method |-> method,
     payment_detail |-> detail, comment |-> comment, status |-> "approved"]

\* INSERT INTO withdraw_requests (...) VALUES (...): status defaults to 'pending'
NewRequest(u, amount, method, detail, comment) ==
    [employee_username |-> u, usdt_amount |-> amount, payment_method |-> method,
     payment_detail |-> detail, comment |-> comment, status |-> "pending"]

\* UPDATE employees SET usdt_balance = usdt_balance - ? WHERE username = ?
Debit(emps, u, amount) ==
    [x \in DOMAIN emps |->
        IF x = u THEN [emps[x] EXCEPT !.usdt_balance = FSub(@, amount)] ELSE emps[x]]

\* replied: whether the closing message.reply went through; when it raises,
\* the state.clear() after it is not reached
process_withdraw_comment(chat, person, text, replied) ==
    LET u == person.username
        d == Dialogue(chat, person)
        comment == IF text = "na" THEN "" ELSE text
        amount == d.data.usdt_amount
        payment_method == d.data.payment_method
    IN  /\ d.state = "comment"
        /\ Len(requests) < MaxRequests
        /\ IF CommentRefused(text)
           THEN /\ last' = Reply("withdraw_comment", u, "comment_too_long")
                /\ UNCHANGED <<employees, requests, fsm>>
           ELSE IF ~Exists(u)
           THEN \* profile_data[0] raises TypeError, which nothing catches
                /\ last' = Reply("withdraw_comment", u, "error")
                /\ UNCHANGED <<employees, requests, fsm>>
           ELSE LET payment_detail == IF payment_method = "Bkash"
                                      THEN employees[u].bkash_number
                                      ELSE employees[u].binance_id
                IN  /\ requests' = Append(requests,
                           NewRequest(u, amount, payment_method, payment_detail, comment))
                    /\ employees' = Debit(employees, u, amount)
                    /\ fsm' = IF replied THEN [fsm EXCEPT ![<<chat, person>>] = Idle]
                              ELSE fsm
                    /\ last' = [op |-> "withdraw_comment", who |-> u, status |-> "ok",
                                amount |-> amount, balance_before |-> employees[u].usdt_balance]
        /\ UNCHANGED <<clicks, usdt_rate, today, credited, tasks>>

\* A run of process_withdraw_comment that ends between its two commits: the
\* INSERT is committed (line 1074) and the UPDATE of line 1077 raises
\* sqlite3.OperationalError (bot.db locked by another connection, disk
\* full) or the process is stopped.  Nothing catches the error: no reply,
\* no state.clear().
process_withdraw_comment_interrupted(chat, person, text) ==
    LET u == person.username
        d == Dialogue(chat, person)
        comment == IF text = "na" THEN "" ELSE text
        payment_detail == IF d.data.payment_method = "Bkash"
                          THEN employees[u].bkash_number
                          ELSE employees[u].binance_id
    IN  /\ d.state = "comment"
        /\ Len(requests) < MaxRequests
        /\ ~CommentRefused(text)
        /\ Exists(u)
        /\ requests' = Append(requests,
               NewRequest(u, d.data.usdt_amount, d.data.payment_method,
                          payment_detail, comment))
        /\ last' = Reply("withdraw_comment", u, "error")
        /\ UNCHANGED <<employees, clicks, usdt_rate, fsm, today, credited, tasks>>

----------------------------------------------------------------------------
(* Profile dialogue.  /set_profile is registered before the ProfileSetup.*  *)
(* state handlers and these before every command registered from line 479  *)
(* on: while a dialogue is in a ProfileSetup state, any other text, a later *)
(* command included, is taken as the answer to its question.                *)

ProfileSteps ==
    <<"ProfileSetup:name", "ProfileSetup:phone", "ProfileSetup:email",
      "ProfileSetup:bkash", "ProfileSetup:binance_id", "ProfileSetup:youtube",
      "ProfileSetup:facebook", "ProfileSetup:tiktok", "ProfileSetup:website">>

InProfileSetup(chat, person) ==
    \E i \in 1..Len(ProfileSteps) : Dialogue(chat, person).state = ProfileSteps[i]

start_profile_setup(chat, person) ==
    LET u == person.username
    IN  /\ IF ~Exists(u)
           THEN /\ last' = Reply("set_profile", u, "not_employee")
                /\ UNCHANGED fsm
           ELSE /\ fsm' = SetDialogue(chat, person, ProfileSteps[1],
                                      Dialogue(chat, person).data)
                /\ last' = Reply("set_profile", u, "ask")
        /\ UNCHANGED <<employees, clicks, requests, usdt_rate, today, credited, tasks>>

\* process_name .. process_tiktok: the answer goes into the FSM data under its
\* own key and the next question is asked.  The answers are left out of the
\* model: process_website, their only reader, stops before it uses them.
process_profile_answer(chat, person) ==
    LET d == Dialogue(chat, person)
    IN  /\ \E i \in 1..(Len(ProfileSteps) - 1) :
              /\ d.state = ProfileSteps[i]
              /\ fsm' = SetDialogue(chat, person, ProfileSteps[i + 1], d.data)
        /\ last' = Reply("set_profile", person.username, "ask")
        /\ UNCHANGED <<employees, clicks, requests, usdt_rate, today, credited, tasks>>

\* user_data['about_yourself'] raises KeyError: no handler stores that key.
\* The UPDATE, the reply and state.clear() are not reached.
process_website(chat, person) ==
    /\ Dialogue(chat, person).state = ProfileSteps[Len(ProfileSteps)]
    /\ last' = Reply("set_profile", person.username, "error")
    /\ UNCHANGED <<employees, clicks, requests, usdt_rate, fsm, today, credited, tasks>>

\* /join_employee: registered before the ProfileSetup.* handlers, so it is
\* served in every dialogue state.  SELECT ... WHERE username = ? OR
\* telegram_id = ? may match two rows; fetchone() takes one of them.
self_join_employee_handler(chat, person) ==
    LET u == person.username
        found == {x \in DOMAIN employees :
                     x = u \/ employees[x].telegram_id = person.id}
    IN  /\ IF found # {}
           THEN /\ \E x \in found :
                      last' = Reply("join_employee", u,
                                    IF employees[x].banned THEN "banned" ELSE "already")
                /\ UNCHANGED <<employees, fsm>>
           ELSE /\ employees' = InsertEmployee(employees, u, person.id)
                /\ fsm' = SetDialogue(chat, person, ProfileSteps[1],
                                      Dialogue(chat, person).data)
                /\ last' = Reply("join_employee", u, "ask")
        /\ UNCHANGED <<clicks, requests, usdt_rate, today, credited, tasks>>

----------------------------------------------------------------------------

AdminCommand ==
    \E actor \in {Admin, P1} :
        \/ \E value \in RateInputs : set_usdt_rate_handler(actor, value)
        \/ \E target \in Targets, n \in VisitInputs :
              \/ /\ VisitsWithin(target, n, MaxVisits)
                 /\ employee_visit_add_handler(actor, target, n)
              \/ employee_visit_minus_handler(actor, target, n)
        \/ \E target \in Targets : convert_visits_to_usdt_handler(actor, target)

EmployeeCommand ==
    \E person \in Talkers :
        \/ claim_usdt_handler(person)
        \/ \E chat \in Chats :
              \/ start_withdraw(chat, person)
              \/ \E text \in AmountTexts : process_withdraw_amount(chat, person, text)
              \/ \E text \in MethodTexts : process_withdraw_payment_method(chat, person, text)
              \/ \E text \in CommentTexts, replied \in BOOLEAN :
                    process_withdraw_comment(chat, person, text, replied)

Next == IngestKnown \/ AdminCommand \/ EmployeeCommand

Spec == Init /\ [][Next]_vars

\* the ingestion endpoint alone, over every payload, across midnight
NextIngest == Ingest \/ NextDay

SpecIngest == InitIngest /\ [][NextIngest]_vars

\* databases in which e1 has visits to convert, or none, under a stored rate
\* of 1.00, of 0, or none
ConvertDbs ==
    { [employees |-> [u \in {"e1"} |-> [NewEmployee("2") EXCEPT !.total_visits = v]],
       clicks |-> {}, usdt_rate |-> r] : v \in {0, 100, 2500}, r \in {NoAmount, 0, 100} }

InitConvert == InitDb(ConvertDbs)

ConvertCommand ==
    \E t \in Tasks :
        \/ claim_usdt_select(t, P1)
        \/ \E actor \in {Admin, P1} : convert_visits_to_usdt_select(t, actor, "e1")
        \/ conversion_update(t)
        \/ conversion_replied(t)

ConvertAdminCommand ==
    /\ LoopFree(NULL)
    /\ \/ \E value \in ConvertRates : set_usdt_rate_handler(Admin, value)
       \/ /\ VisitsWithin("e1", 100, MaxHundreds * 100)
          /\ employee_visit_add_handler(Admin, "e1", 100)

NextConvert == ConvertCommand \/ ConvertAdminCommand

\* conversions alone: two commands in flight, the rate and the visits changing
SpecConvert == InitConvert /\ [][NextConvert]_vars

\* databases in which e1 has a complete profile and 10.00 or 1.30 USDT
WithdrawDbs ==
    { [employees |-> [u \in {"e1"} |->
                         [Established(NewEmployee("2")) EXCEPT !.usdt_balance = Dec(b)]],
       clicks |-> {}, usdt_rate |-> 100] : b \in {10 * MinWithdraw, 13 * Tenth} }

InitWithdraw == InitDb(WithdrawDbs)

NextWithdraw ==
    \E person \in Talkers, chat \in Chats :
        \/ start_withdraw(chat, person)
        \/ \E text \in AmountTexts \cup TypedAmounts :
              process_withdraw_amount(chat, person, text)
        \/ \E text \in MethodTexts : process_withdraw_payment_method(chat, person, text)
        \/ \E text \in CommentTexts, replied \in BOOLEAN :
              process_withdraw_comment(chat, person, text, replied)

\* the withdrawal dialogue alone, with typed amounts
SpecWithdraw == InitWithdraw /\ [][NextWithdraw]_vars

\* a database in which e1 has a complete profile and 10.00 USDT
RequestDbs ==
    { [employees |-> [u \in {"e1"} |->
                         [Established(NewEmployee("2")) EXCEPT
                             !.usdt_balance = Dec(10 * MinWithdraw)]],
       clicks |-> {}, usdt_rate |-> 100] }

InitRequest == InitDb(RequestDbs)

RequestAmounts  == {"abc", "Withdraw $1.00"}
RequestComments == {"na", "len60", "long61"}

\* e1 in one chat: the two dialogues
RequestDialogue(chat, person) ==
    \/ start_profile_setup(chat, person)
    \/ process_profile_answer(chat, person)
    \/ process_website(chat, person)
    \/ ~InProfileSetup(chat, person) /\ start_withdraw(chat, person)
    \/ \E text \in RequestAmounts : process_withdraw_amount(chat, person, text)
    \/ \E text \in MethodTexts : process_withdraw_payment_method(chat, person, text)
    \/ \E text \in RequestComments :
          \/ \E replied \in BOOLEAN : process_withdraw_comment(chat, person, text, replied)
          \/ process_withdraw_comment_interrupted(chat, person, text)

\* the administrator, on the row of e1
RequestStaffCommand(target, tid) ==
    \/ admin_add_employee_handler(Admin, target, tid)
    \/ delete_employee(Admin, target)
    \/ band_employee_handler(Admin, target)
    \/ add_editor_handler(Admin, target)
    \/ remove_editor_handler(Admin, target)

NextRequest == RequestDialogue("c1", P1) \/ RequestStaffCommand(P1.username, P1.id)

\* the withdrawal dialogue of one employee while the profile dialogue and the
\* administrator work on the same row
SpecRequest == InitRequest /\ [][NextRequest]_vars

AdjustInputs == {0 - 1, 0, 1, 2}             \* /em_visit_add @u <visits>, with a sign
Staff == {"e2"}                              \* @username of the commands that edit the staff list

VisitCommand(actor) ==
    \E target \in Targets, n \in AdjustInputs :
        \/ /\ VisitsWithin(target, n, MaxAdminVisits)
           /\ employee_visit_add_handler(actor, target, n)
        \/ employee_visit_minus_handler(actor, target, n)

\* conversions are followed from the balance of the stored database
LedgerCommand(actor) ==
    \/ \E value \in ConvertRates : set_usdt_rate_handler(actor, value)
    \/ VisitCommand(actor)
    \/ \E target \in Targets :
          /\ StartsWithin(employees, target, MinBalance)
          /\ convert_visits_to_usdt_handler(actor, target)

StaffCommand(actor) ==
    \E target \in Staff :
        \/ \E tid \in TelegramIds : admin_add_employee_handler(actor, target, tid)
        \/ delete_employee(actor, target)
        \/ band_employee_handler(actor, target)
        \/ add_editor_handler(actor, target)
        \/ remove_editor_handler(actor, target)

ReportCommand(actor) ==
    \/ list_employees(actor)
    \/ click_user_list_handler(actor)
    \/ get_report(actor)

Operators == {Admin, P2}                     \* who sends these commands

NextAdmin ==
    \E actor \in Operators :
        LedgerCommand(actor) \/ StaffCommand(actor) \/ ReportCommand(actor)

\* the commands of the administrator and of the editors alone, sent by anybody
SpecAdmin == Init /\ [][NextAdmin]_vars

\* one tracked page counted for e1 while the administrator removes, adds,
\* bans and promotes e1
NextClicks ==
    \/ IngestKnown
    \/ NextDay
    \/ \E tid \in TelegramIds : RequestStaffCommand("e1", tid)

SpecClicks == Init /\ [][NextClicks]_vars

\* people who write to the bot in one chat each: they join, ask for the
\* profile dialogue and answer its questions
ProfileCommand(person) ==
    \/ self_join_employee_handler("c1", person)
    \/ start_profile_setup("c1", person)
    \/ process_profile_answer("c1", person)
    \/ process_website("c1", person)

NextProfile == \E person \in Talkers : ProfileCommand(person)

\* Every message is delivered to its handler, and an employee in a dialogue
\* answers every question: a question asked again and again, whatever the
\* employee sends in between, is answered.
SpecProfile ==
    /\ InitDb({FreshDb})
    /\ [][NextProfile]_vars
    /\ \A person \in Talkers :
          /\ \A i \in 1..(Len(ProfileSteps) - 1) :
                SF_vars(/\ Dialogue("c1", person).state = ProfileSteps[i]
                        /\ process_profile_answer("c1", person))
          /\ SF_vars(process_website("c1", person))

RateWords == {0 - 100, 0, 100, NaN}          \* /set_usdt -1, 0, 1.00, nan

\* conversions are followed while the stored rate is a number
NextRate ==
    \/ \E actor \in Operators :
          \/ \E value \in RateWords : set_usdt_rate_handler(actor, value)
          \/ VisitCommand(actor)
          \/ /\ usdt_rate # NaN
             /\ StartsWithin(employees, "e1", MinBalance)
             /\ convert_visits_to_usdt_handler(actor, "e1")
    \/ /\ usdt_rate # NaN
       /\ StartsWithin(employees, "e1", MinBalance)
       /\ claim_usdt_handler(P1)

\* the rate setting under /set_usdt and the conversions that read it
SpecRate == Init /\ [][NextRate]_vars

----------------------------------------------------------------------------
(* Properties *)

\* the click rows recorded for a viewer identity on a calendar day
RowsOfViewer(identity, day) ==
    { r \in clicks :
        /\ ViewerIdentity(r.viewer_telegram_id, r.viewer_username) = identity
        /\ r.date = day }

\* the fingerprint and the viewer of the call that `c` (a value of last) records
CallKey(c)    == EmployeePageVisitKey(c.ref, c.vid, c.vname, c.day, c.page)
CallViewer(c) == ViewerIdentity(c.vid, c.vname)
UnderQuota(c) == Cardinality(RowsOfViewer(CallViewer(c), c.day)) < QUOTA

\* C1: in every reachable state every employee has usdt_balance >= 0 and
\* total_visits >= 0.
C1_NonNegativeLedger ==
    \A u \in DOMAIN employees :
        FLeq(FZero, employees[u].usdt_balance) /\ employees[u].total_visits >= 0

\* C2: whenever a withdrawal request is inserted and debited, its amount is at
\* most the balance the employee holds at that moment.
C2_DebitWithinBalance ==
    [][Len(requests') > Len(requests) =>
          LET r == requests'[Len(requests')]
          IN  FLeq(r.usdt_amount, employees[r.employee_username].usdt_balance)]_vars

\* C3: a call for an existing, non-banned referrer whose fingerprint is not
\* stored and whose viewer is under quota inserts exactly one click row, adds 1
\* to the referrer's total_clicks, adds 1 to total_visits exactly when is_visit
\* is true, and returns success.
C3_AcceptedCallRecorded ==
    [][(/\ last'.op = "track_click"
        /\ Exists(last'.ref)
        /\ ~employees[last'.ref].banned
        /\ ~KeyStored(CallKey(last'))
        /\ UnderQuota(last'))
       => /\ last'.status = "success"
          /\ clicks \subseteq clicks'
          /\ Cardinality(clicks') = Cardinality(clicks) + 1
          /\ employees'[last'.ref].total_clicks = employees[last'.ref].total_clicks + 1
          /\ employees'[last'.ref].total_visits =
                employees[last'.ref].total_visits + (IF last'.is_visit THEN 1 ELSE 0)]_vars

\* C4: over any number of calls with the same referrer, viewer identity, page
\* and calendar day, the referrer's total_visits grows by at most 1 in total.
C4_OneVisitPerFingerprint ==
    \A fp \in DOMAIN credited : credited[fp] <= 1

\* C4 witness: a visit was credited, and a later call with the same referrer,
\* viewer, page and day, again with is_visit true, was handled.
C4_Witness_RepeatAfterCredit ==
    /\ last.op = "track_click"
    /\ last.is_visit
    /\ last.status = "error"
    /\ <<last.ref, CallViewer(last), last.page, last.day>> \in DOMAIN credited
    /\ credited[<<last.ref, CallViewer(last), last.page, last.day>>] = 1

\* C5: a repeated call (same referrer, viewer, page and day, viewer under
\* quota) records a new click row and adds 1 to the referrer's total_clicks.
C5_RepeatCountsAsClick ==
    [][(/\ last'.op = "track_click"
        /\ Exists(last'.ref)
        /\ KeyStored(CallKey(last'))
        /\ UnderQuota(last'))
       => /\ Cardinality(clicks') = Cardinality(clicks) + 1
          /\ employees'[last'.ref].total_clicks = employees[last'.ref].total_clicks + 1]_vars

\* C6: for every viewer identity and calendar day, at most 20 click rows of
\* that viewer on that day are recorded.
C6_ViewerDailyQuota ==
    \A v \in Viewers, d \in 1..MaxDay :
        Cardinality(RowsOfViewer(ViewerIdentity(v.vid, v.vname), d)) <= QUOTA

\* C7: a call for a viewer who already has 20 or more click rows today returns
\* limit_reached and changes neither the click log nor any employee counter.
C7_OverQuotaIsLimited ==
    [][(last'.op = "track_click" /\ ~UnderQuota(last'))
       => /\ last'.status = "limit_reached"
          /\ clicks' = clicks
          /\ employees' = employees]_vars

\* C8: a call whose ref names no existing employee, or a banned one, inserts no
\* click row and changes no employee counter.
C8_UnknownOrBannedRejected ==
    [][(/\ last'.op = "track_click"
        /\ (~Exists(last'.ref) \/ employees[last'.ref].banned))
       => /\ clicks' = clicks
          /\ employees' = employees]_vars

\* C9: no call to track_click_handler creates an employee row: the set of
\* employee usernames is the same before and after the call.
C9_IngestionCreatesNoEmployee ==
    [][last'.op = "track_click" => DOMAIN employees' = DOMAIN employees]_vars

\* C9 witness: a click was recorded for a ref that names no employee, and no
\* row for that ref exists.
C9_Witness_RecordedForUnknownRef ==
    /\ last.op = "track_click"
    /\ last.status = "success"
    /\ ~Exists(last.ref)
    /\ \E r \in clicks : r.ref_by_employee = last.ref /\ r.unique_daily_key = CallKey(last)

\* C10: a call whose fingerprint is already stored (viewer under quota) ends
\* with status success or duplicate, never with status error.
C10_CollisionIsNotAnError ==
    [][(/\ last'.op = "track_click"
        /\ KeyStored(CallKey(last'))
        /\ UnderQuota(last'))
       => last'.status \in {"success", "duplicate"}]_vars

\* C11: every call to the ingestion endpoint ends with a JSON response whose
\* status is success, duplicate, limit_reached or error.
C11_AlwaysAJsonStatus ==
    [][last'.op = "track_click"
       => last'.status \in {"success", "duplicate", "limit_reached", "error"}]_vars

\* C12: a call with a missing ref is answered with HTTP 400 and changes neither
\* the click log nor the employees.
C12_MissingRefIsBadRequest ==
    [][(last'.op = "track_click" /\ last'.ref = NULL)
       => /\ HttpStatus(last'.status) = 400
          /\ clicks' = clicks
          /\ employees' = employees]_vars

\* C13: when the notification of the administrator fails after a click was
\* recorded, the call still returns success, the click row is stored and the
\* referrer's counters carry the increments of the call.
C13_NotificationFailureIsHarmless ==
    [][(last'.op = "track_click" /\ last'.notify = "failed")
       => /\ last'.status = "success"
          /\ HttpStatus(last'.status) = 200
          /\ \E r \in clicks' \ clicks : r.unique_daily_key = CallKey(last')
          /\ Exists(last'.ref) =>
                /\ employees'[last'.ref].total_clicks = employees[last'.ref].total_clicks + 1
                /\ employees'[last'.ref].total_visits >= employees[last'.ref].total_visits]_vars

\* C13 witness: a click of a registered referrer was recorded, its visit was
\* credited, and the notification of the administrator failed.
C13_Witness_FailedNotification ==
    /\ last.op = "track_click"
    /\ last.notify = "failed"
    /\ last.status = "success"
    /\ last.is_visit
    /\ Exists(last.ref)
    /\ \E r \in clicks : r.unique_daily_key = CallKey(last)

----------------------------------------------------------------------------
(* Conversion *)

\* task t takes the step from its SELECT to its reply
Updates(t) == tasks[t].pc = "selected" /\ tasks'[t].pc = "replying"

\* the floats of the decimal amounts of whole tenths
TenthFloat == [k \in 0..MaxTenths |-> Dec(k * Tenth)]

\* what the other conversion command would make of the state task t acts on
OtherPath(t) ==
    IF tasks[t].op = "claim_usdt"
    THEN convert_visits_to_usdt(tasks[t].data, employees, CurrentRate, tasks[t].who)
    ELSE claim_usdt(tasks[t].data, employees, CurrentRate, tasks[t].who)

\* C14: a successful claim_usdt of an employee with v visits at rate r leaves
\* the balance at exactly the decimal amount it had plus v/1000 * r, sets
\* total_visits to 0 and changes nothing else.
C14_ClaimAddsExactProduct ==
    [][\A t \in Tasks :
         (Updates(t) /\ tasks[t].op = "claim_usdt" /\ last'.status = "ok") =>
            LET u == tasks[t].who
                v == employees[u].total_visits
            IN  /\ \A k \in 0..MaxTenths :
                       employees[u].usdt_balance = TenthFloat[k] =>
                           employees'[u].usdt_balance = Dec(k * Tenth + v * usdt_rate)
                /\ employees' = [employees EXCEPT
                                    ![u].usdt_balance = employees'[u].usdt_balance,
                                    ![u].total_visits = 0]
                /\ UNCHANGED <<clicks, requests, usdt_rate, fsm>>]_vars

\* C15: claim_usdt of an employee with total_visits = 0 replies that there are
\* no visits and leaves the table as it was; so does a conversion that follows
\* a successful one of the same employee with no visit credited in between.
C15_NoVisitsNoConversion ==
    [][\A t \in Tasks :
         (Updates(t) /\ tasks[t].op = "claim_usdt") =>
            LET u == tasks[t].who
            IN  /\ (Exists(u) /\ employees[u].total_visits = 0) =>
                       (last'.status = "no_visits" /\ employees' = employees)
                /\ (/\ last.op \in {"claim_usdt", "convert_visits_to_usdt"}
                    /\ last.status = "ok"
                    /\ last.who = u) =>
                       (last'.status = "no_visits" /\ employees' = employees)]_vars

\* a claim found no visits while the reply of an earlier, successful claim
\* of the same employee was still on its way
C15_Witness_SecondClaimFails ==
    \E a, b \in Tasks :
        /\ a # b
        /\ tasks[a].pc = "replying" /\ tasks[b].pc = "replying"
        /\ tasks[a].op = "claim_usdt" /\ tasks[b].op = "claim_usdt"
        /\ tasks[a].who = tasks[b].who
        /\ tasks[a].data.total_visits > 0
        /\ tasks[b].data.total_visits = 0
        /\ FLess(tasks[a].data.usdt_balance, tasks[b].data.usdt_balance)
        /\ last.op = "claim_usdt" /\ last.status = "no_visits"

\* C16: a conversion of an employee who has visits, while the rate is absent
\* or zero, replies that the rate is not set and leaves usdt_balance and
\* total_visits as they were.
C16_NoRateNoConversion ==
    [][\A t \in Tasks :
         (/\ Updates(t)
          /\ tasks[t].data.found
          /\ tasks[t].data.total_visits > 0
          /\ (usdt_rate = NoAmount \/ usdt_rate = 0)) =>
            (last'.status = "rate_not_set" /\ employees' = employees)]_vars

C16_Witness_ClaimWithoutRate ==
    /\ last.op = "claim_usdt" /\ last.status = "rate_not_set"
    /\ usdt_rate = 0
    /\ employees[last.who].total_visits > 0
    /\ \E t \in Tasks : tasks[t].pc = "replying" /\ tasks[t].op = "claim_usdt"

\* C16 as stated, for any number of visits: a conversion while the rate is
\* absent or zero replies that the rate is not set.
C16_NoRateWhateverTheVisits ==
    [][\A t \in Tasks :
         (/\ Updates(t)
          /\ tasks[t].data.found
          /\ (usdt_rate = NoAmount \/ usdt_rate = 0)) =>
            (last'.status = "rate_not_set" /\ employees' = employees)]_vars

\* C17: whatever the order in which two conversions of one employee are
\* served, a conversion that succeeds converts the visits the employee holds
\* at that moment, once, onto the balance held at that moment, and leaves
\* total_visits at 0; a caller that comes later finds no visits and fails.
C17_ConvertedOnce ==
    [][\A t \in Tasks :
         (Updates(t) /\ last'.status = "ok") =>
            LET u == tasks[t].who
            IN  /\ employees[u].total_visits > 0
                /\ tasks[t].data.total_visits = employees[u].total_visits
                /\ tasks[t].data.usdt_balance = employees[u].usdt_balance
                /\ employees'[u].usdt_balance =
                       FAdd(employees[u].usdt_balance,
                            UsdtToAdd(employees[u].total_visits, CurrentRate))
                /\ employees'[u].total_visits = 0]_vars

\* a claim and an administrator's conversion of the same employee are in
\* flight together: the claim converted, the administrator's found nothing
C17_Witness_Overlap ==
    \E a, b \in Tasks :
        /\ a # b
        /\ tasks[a].pc = "replying" /\ tasks[b].pc = "replying"
        /\ tasks[a].op = "claim_usdt" /\ tasks[b].op = "convert_visits_to_usdt"
        /\ tasks[a].who = tasks[b].who
        /\ tasks[a].data.total_visits > 0
        /\ tasks[b].data.found /\ tasks[b].data.total_visits = 0
        /\ FLess(tasks[a].data.usdt_balance, tasks[b].data.usdt_balance)
        /\ last.op = "convert_visits_to_usdt" /\ last.status = "no_visits"

\* C18: claim_usdt by u and the administrator's convert_visits_to_usdt @u give,
\* from the same state, the same reply, the same amount and the same table.
C18_PathsAgree ==
    [][\A t \in Tasks :
         Updates(t) =>
            /\ employees' = OtherPath(t).employees
            /\ last'.status = OtherPath(t).status
            /\ last'.status = "ok" =>
                   (last'.added = OtherPath(t).added /\ last'.visits = OtherPath(t).visits)]_vars

C18_Witness_BothPathsConverted ==
    \E a, b \in Tasks :
        /\ tasks[a].pc = "replying" /\ tasks[b].pc = "replying"
        /\ tasks[a].op = "claim_usdt" /\ tasks[b].op = "convert_visits_to_usdt"
        /\ tasks[a].who = tasks[b].who
        /\ tasks[a].data.total_visits > 0
        /\ tasks[b].data.total_visits > 0
        /\ last.op = "convert_visits_to_usdt" /\ last.status = "ok"

----------------------------------------------------------------------------
(* Withdrawal *)

\* the floats of the decimal amounts of whole tenths up to 10.00
AmountFloat == [k \in 0..((10 * MinWithdraw) \div Tenth) |-> Dec(k * Tenth)]

\* C19: a withdrawal of a, 1.00 <= a <= b, completed by an employee whose
\* balance is b, leaves the balance at the decimal amount b - a and adds one
\* request, pending, of amount a; an amount above the balance, sent to the
\* dialogue afterwards, is refused as insufficient and changes nothing.
C19_WithdrawalDebitsOnce ==
    [][/\ (last'.op = "withdraw_comment" /\ last'.status = "ok") =>
            LET u == last'.who
            IN  \A b \in DOMAIN AmountFloat : \A a \in DOMAIN AmountFloat :
                    (/\ employees[u].usdt_balance = AmountFloat[b]
                     /\ last'.amount = AmountFloat[a]
                     /\ MinWithdraw <= a * Tenth /\ a <= b) =>
                        /\ employees'[u].usdt_balance = AmountFloat[b - a]
                        /\ Len(requests') = Len(requests) + 1
                        /\ SubSeq(requests', 1, Len(requests)) = requests
                        /\ requests'[Len(requests')].status = "pending"
                        /\ requests'[Len(requests')].usdt_amount = last'.amount
                        /\ requests'[Len(requests')].employee_username = u
       /\ \A k \in Chats \X Talkers :
              (fsm[k].state = "amount" /\ fsm'[k].state = "payment_method") =>
                  FLeq(fsm'[k].data.usdt_amount, employees[k[2].username].usdt_balance)
       /\ (last'.op = "withdraw_amount" /\ last'.status = "insufficient_balance") =>
              UNCHANGED <<employees, requests, fsm>>
      ]_vars

\* C20: every row of withdraw_requests has an amount of at least 1.00.
C20_RequestsAtLeastMinimum ==
    \A i \in 1..Len(requests) : FLeq(MinBalance, requests[i].usdt_amount)

\* a step that stores a withdrawal request, and the row it stores
Requested == Len(requests') = Len(requests) + 1
Newest == requests'[Len(requests')]

\* C21: an employee whose profile is not marked complete never gets a
\* withdrawal request stored: /withdraw_usdt is refused, no dialogue starts,
\* and no request is stored and no balance changes for such an employee.
C21_NoRequestWithoutProfile ==
    [][ /\ Requested
              => /\ Exists(Newest.employee_username)
                 /\ employees[Newest.employee_username].profile_set
        /\ \A person \in Talkers :
              /\ Exists(person.username)
              /\ ~employees[person.username].profile_set
              /\ start_withdraw("c1", person)
              => UNCHANGED <<fsm, employees, requests>>
      ]_vars

\* C22: every stored request names Bkash or Binance as its payment method
\* and carries a payment detail, the number or id the profile holds for
\* that method.
C22_RequestHasMethodAndDetail ==
    \A i \in 1..Len(requests) :
        /\ requests[i].payment_method \in {"Bkash", "Binance"}
        /\ requests[i].payment_detail # NULL

\* C23: every stored request has a comment of at most 60 characters; a
\* longer comment is refused and neither a request is stored nor a balance
\* debited; the placeholder word is stored as the empty string.
C23_CommentWithinLimit ==
    /\ [](\A i \in 1..Len(requests) : CommentLen(requests[i].comment) <= MaxCommentLen)
    /\ [][ \A replied \in BOOLEAN :
              /\ process_withdraw_comment("c1", P1, "long61", replied)
                    => UNCHANGED <<requests, employees>>
              /\ process_withdraw_comment("c1", P1, "na", replied) /\ Requested
                    => Newest.comment = ""
          ]_vars

\* a comment of 60 characters was stored and one of 61 was then refused
C23_Witness_LongCommentRefused ==
    /\ last = Reply("withdraw_comment", "e1", "comment_too_long")
    /\ \E i \in 1..Len(requests) : requests[i].comment = "len60"

\* C24: a request is stored in the step that debits its amount from the
\* balance of its employee, and the balance of an employee goes down in no
\* other step.
C24_RequestIffDebit ==
    [][ /\ Requested
              => LET u == Newest.employee_username
                 IN  /\ u \in DOMAIN employees /\ u \in DOMAIN employees'
                     /\ employees'[u].usdt_balance =
                            FSub(employees[u].usdt_balance, Newest.usdt_amount)
        /\ \A u \in DOMAIN employees \cap DOMAIN employees' :
              FLess(employees'[u].usdt_balance, employees[u].usdt_balance) => Requested
      ]_vars

\* C25: a stored request is never changed or removed, whatever is done to
\* the row of its employee afterwards (profile dialogue, ban, unban, editor
\* flag, deletion and a new registration).
C25_RequestsKeepTheirValues ==
    [][ /\ Len(requests') >= Len(requests)
        /\ \A i \in 1..Len(requests) : requests'[i] = requests[i]
      ]_vars

\* a request keeps the bKash number it was stored with while the row of its
\* employee, deleted and registered anew, holds none
C25_Witness_ProfileChangedAfterRequest ==
    /\ Exists("e1")
    /\ employees["e1"].bkash_number = NULL
    /\ \E i \in 1..Len(requests) :
          requests[i].employee_username = "e1" /\ requests[i].payment_detail = "017"

\* the status write the withdrawal contract names: request i goes to outcome
ResolveRequest(i, outcome) ==
    requests' = [requests EXCEPT ![i].status = outcome]

\* C26: a pending request can be resolved: for either outcome, approved or
\* rejected, the program has a step that writes it as the status of the
\* request.
C26_PendingCanBeResolved ==
    \A i \in 1..Len(requests), outcome \in {"approved", "rejected"} :
        requests[i].status = "pending"
            => ENABLED (ResolveRequest(i, outcome) /\ NextRequest)

----------------------------------------------------------------------------
(* Administration *)

\* the tables of bot.db
Store == <<employees, clicks, requests, usdt_rate>>

\* C27: /set_usdt by the administrator with a value of 0 or less leaves the
\* stored rate as it was and with a value above 0 replaces it; no other
\* command changes the stored rate; a conversion that succeeds adds
\* (visits / 1000) times the rate stored at that moment, which is
\* therefore the value set last.
C27_RateSetAndRead ==
    [][ /\ \A value \in ConvertRates :
              set_usdt_rate_handler(Admin, value)
                  => usdt_rate' = IF value > 0 THEN value ELSE usdt_rate
        /\ (usdt_rate' # usdt_rate => last'.op = "set_usdt")
        /\ last'.op = "convert_visits_to_usdt" /\ last'.status = "ok"
              => /\ last'.added = UsdtToAdd(employees[last'.who].total_visits,
                                            RateFloat[usdt_rate])
                 /\ employees'[last'.who].usdt_balance =
                        FAdd(employees[last'.who].usdt_balance, last'.added)
      ]_vars

\* a conversion at the rate of 3.00, which only /set_usdt can have stored
C27_Witness_ConvertedAtSetRate ==
    /\ last.op = "convert_visits_to_usdt"
    /\ last.status = "ok"
    /\ usdt_rate = 300
    /\ last.added = UsdtToAdd(last.visits, RateFloat[300])

\* C28: /em_visit_add @u n with n > 0 adds exactly n to total_visits of u and
\* /em_visit_minus @u n sets it to max(0, total_visits - n); with n <= 0 or
\* an unknown u the employees table is left as it was, with no new row;
\* no other column of u (usdt_balance, total_clicks) and no other row changes.
C28_VisitAdjustments ==
    [][ \A target \in Targets, n \in AdjustInputs :
          /\ employee_visit_add_handler(Admin, target, n)
                => employees' = IF n > 0 /\ Exists(target)
                                THEN [employees EXCEPT ![target].total_visits = @ + n]
                                ELSE employees
          /\ employee_visit_minus_handler(Admin, target, n)
                => employees' = IF n > 0 /\ Exists(target)
                                THEN [employees EXCEPT ![target].total_visits =
                                          IF @ > n THEN @ - n ELSE 0]
                                ELSE employees
      ]_vars

\* one visit was taken from the most the model lets e1 have
C28_Witness_VisitsSubtracted ==
    /\ last.op = "em_visit_minus"
    /\ last.status = "ok"
    /\ Exists("e1")
    /\ employees["e1"].total_visits = MaxAdminVisits - 1

\* C29: whoever is not the administrator and sends set_usdt, em_visit_add,
\* em_visit_minus, convert_visits_to_usdt, add_employee, delete_employee,
\* band_employee, add_editor or remove_editor is told so, and no table
\* changes.
C29_NonAdminChangesNothing ==
    [][ \A actor \in Operators \ {Admin} :
          LedgerCommand(actor) \/ StaffCommand(actor)
              => last'.status = "not_admin" /\ UNCHANGED Store
      ]_vars

\* somebody else than the administrator asked to delete the employee e2,
\* who is still there
C29_Witness_DeleteDenied ==
    /\ last = Reply("delete_employee", "e2", "not_admin")
    /\ Exists("e2")

\* the employee row of the actor carries the editor flag
HasEditorFlag(actor) ==
    Exists(actor.username) /\ employees[actor.username].is_editor

\* C30: list_employees, click_user_list and report are shown exactly to the
\* administrator and to the employees whose editor flag is set; an editor
\* who is not the administrator is denied every command that changes the
\* ledger.
C30_ReportsForAdminAndEditors ==
    [][ \A actor \in Operators :
          /\ ReportCommand(actor)
                => (last'.status = "shown") = (is_admin(actor.id) \/ HasEditorFlag(actor))
          /\ ~is_admin(actor.id) /\ HasEditorFlag(actor) /\ LedgerCommand(actor)
                => last'.status = "not_admin" /\ UNCHANGED Store
      ]_vars

----------------------------------------------------------------------------
(* The stores over time *)

\* C32: no two rows of clicks carry the same unique_daily_key, and a row,
\* once inserted, stays in the table as it is.
C32_ClickLogAppendOnly ==
    /\ [](\A r1, r2 \in clicks : r1.unique_daily_key = r2.unique_daily_key => r1 = r2)
    /\ [][clicks \subseteq clicks']_vars

\* a call whose key was already in the table was answered with an error
\* and the table holds one row of that key
C32_Witness_SecondRowRefused ==
    /\ last.op = "track_click"
    /\ last.status = "error"
    /\ Cardinality({r \in clicks : r.unique_daily_key =
           EmployeePageVisitKey(last.ref, last.vid, last.vname, last.day, last.page)}) = 1

C35_RequestsNameAnEmployee ==
    \A i \in 1..Len(requests) : Exists(requests[i].employee_username)

Refusals == {"not_a_number", "not_positive", "insufficient_balance",
             "invalid_method", "missing_detail", "comment_too_long"}

\* C34: a request is stored only by the comment step; the dialogue comes to
\* the comment step only from the payment-method step with a method
\* accepted, and to that step only from the amount step with an amount
\* accepted; a refused answer leaves the dialogue where it is; and the step
\* that stores a request clears the dialogue, so that one dialogue stores one
\* request and debits once.
C34_WithdrawalDialogueOrder ==
    [][LET before == fsm[<<"c1", P1>>].state
           after  == fsm'[<<"c1", P1>>].state
       IN  /\ Requested => before = "comment" /\ last'.op = "withdraw_comment"
           /\ after = "comment" /\ before # "comment"
                 => before = "payment_method" /\ last'.status = "ask_comment"
           /\ after = "payment_method" /\ before # "payment_method"
                 => before = "amount" /\ last'.status = "ask_method"
           /\ last'.status \in Refusals => fsm' = fsm
           /\ Requested => after = "none"
      ]_vars

\* C39: the rate setting is stored and is a number above zero in every
\* reachable state, and no conversion is refused for want of a rate.
C39_RateSetAndPositive ==
    /\ [](usdt_rate # NoAmount /\ usdt_rate # NaN /\ usdt_rate > 0)
    /\ [][last'.status # "rate_not_set"]_vars

\* the rows of clicks that track_click stored for handle u; each of them
\* came with total_clicks = total_clicks + 1 for u
CountedFor(u) ==
    { r \in clicks :
        /\ r.ref_by_employee = u
        /\ r.unique_daily_key =
               EmployeePageVisitKey(u, r.viewer_telegram_id, r.viewer_username,
                                    r.date, r.page_url) }

\* C31: total_clicks of an employee handle is never below zero and never
\* decreases: no step lowers it, and the row a handle has, after ban, unban
\* or /delete_employee followed by /add_employee, holds at least the clicks
\* counted for the handle so far.
C31_ClicksNeverDecrease ==
    /\ [](\A u \in DOMAIN employees :
             /\ employees[u].total_clicks >= 0
             /\ employees[u].total_clicks >= Cardinality(CountedFor(u)))
    /\ [][\A u \in DOMAIN employees \cap DOMAIN employees' :
             employees'[u].total_clicks >= employees[u].total_clicks]_vars

\* C33: an employee in the profile dialogue who answers every question
\* eventually has profile_set = 1 and no dialogue state, and no step taken
\* before the last answer of the dialogue changes the row of the employee.
C33_ProfileDialogueCompletes ==
    /\ \A person \in Talkers :
          InProfileSetup("c1", person)
              ~> /\ Exists(person.username)
                 /\ employees[person.username].profile_set
                 /\ Dialogue("c1", person) = Idle
    /\ [][\A person \in Talkers :
              /\ InProfileSetup("c1", person)
              /\ Dialogue("c1", person).state # ProfileSteps[Len(ProfileSteps)]
              /\ Exists(person.username)
              => /\ person.username \in DOMAIN employees'
                 /\ employees'[person.username] = employees[person.username]]_vars

\* b2 + a = b as numbers, without rounding, for an amount a >= 0
DebitedExactly(b, a, b2) ==
    IF ~b.neg /\ ~b2.neg THEN AddLimbs(b2.mag, a.mag) = b.mag
    ELSE IF ~b.neg THEN AddLimbs(b.mag, b2.mag) = a.mag
    ELSE b2.neg /\ AddLimbs(b.mag, a.mag) = b2.mag

\* C36: usdt_balance plus the amounts of the requests of an employee is
\* what the conversions credited.  Step by step: a step that stores a
\* request of amount a for an employee lowers the balance of that employee
\* by a, so that balance plus requested stays what it was; and a step that
\* is neither that nor a conversion (ingestion, a visit adjustment, a rate
\* change, ban, unban) leaves every balance as it is.
C36_LedgerConserved ==
    [][\A u \in DOMAIN employees \cap DOMAIN employees' :
          LET b  == employees[u].usdt_balance
              b2 == employees'[u].usdt_balance
          IN  /\ Requested /\ Newest.employee_username = u
                    => DebitedExactly(b, Newest.usdt_amount, b2)
              /\ ~(Requested /\ Newest.employee_username = u)
                    /\ last'.op \notin {"claim_usdt", "convert_visits_to_usdt"}
                    => b2 = b
      ]_vars

============================================================================
